---- MODULE Spec2Model ----
(***************************************************************************)
(* Model of the two page scripts of the repository:                        *)
(*   src/app.js      ReportView  - renders reports/latest.json             *)
(*   src/archive.js  ArchiveView - renders reports/index.json              *)
(*                                                                         *)
(* A JavaScript string is a sequence of one-character strings (its code    *)
(* units); the token "EMDASH" stands for the single code unit U+2014.      *)
(* A JSON value is a tagged record; an absent property reads as Undef.     *)
(***************************************************************************)
EXTENDS Integers, Sequences, FiniteSets, TLC

VARIABLES
  view,      \* which script the page runs: "report" (app.js) or "archive" (archive.js)
  pc,        \* position of the async function: "init", "fetching", "parsing", "done"
  requests,  \* number of fetch() calls issued
  r,         \* HTTP status of the response, 0 while there is none
  j,         \* the parsed document, Undef while there is none
  dates,     \* archive.js: the local array `dates`
  display,   \* region -> [prop, s]: what each region shows and how it was set
  prior,     \* the display as the host page had it before the script ran
  writes,    \* the assignments to display regions so far, in order
  outcome,   \* "pending", "rendered" or "unavailable"
  cause,     \* why the catch block ran: "none", "network", "http", "parse", "shape"
  logged,    \* number of console.error calls
  promise    \* state of the promise the async function returned

vars == <<view, pc, requests, r, j, dates, display, prior, writes, outcome, cause, logged, promise>>

(***************************************************************************)
(* Bounds of the model                                                     *)
(***************************************************************************)
\* longest mandate.constraints array of an input document
MaxConstraints == 2
\* longest dates array of an input archive index
MaxDates == 3

(***************************************************************************)
(* JavaScript values                                                       *)
(***************************************************************************)
Undef == [t |-> "undefined"]
Null == [t |-> "null"]
Str(s) == [t |-> "string", s |-> s]
Num(n) == [t |-> "number", n |-> n]
Arr(a) == [t |-> "array", a |-> a]
Obj(f) == [t |-> "object", f |-> f]

\* property read o.k on a value that is not null/undefined
Get(o, k) == IF o.t = "object" /\ k \in DOMAIN o.f THEN o.f[k] ELSE Undef
\* optional chaining o?.k
OptGet(o, k) == IF o.t \in {"undefined", "null"} THEN Undef ELSE Get(o, k)
\* a ?? b
Nullish(v) == v.t \in {"undefined", "null"}
Coalesce(v, d) == IF Nullish(v) THEN d ELSE v
\* ToBoolean
Truthy(v) ==
  CASE v.t = "undefined" -> FALSE
    [] v.t = "null" -> FALSE
    [] v.t = "string" -> v.s # <<>>
    [] v.t = "number" -> v.n # 0
    [] OTHER -> TRUE

(***************************************************************************)
(* String primitives                                                       *)
(***************************************************************************)
DigitChars == <<"0", "1", "2", "3", "4", "5", "6", "7", "8", "9">>

RECURSIVE NatToString(_)
NatToString(n) ==
  IF n < 10 THEN <<DigitChars[n + 1]>>
  ELSE NatToString(n \div 10) \o <<DigitChars[(n % 10) + 1]>>

RECURSIVE JoinStrings(_, _)
\* Array.prototype.join on an array of strings
JoinStrings(a, sep) ==
  IF a = <<>> THEN <<>>
  ELSE IF Len(a) = 1 THEN a[1]
  ELSE a[1] \o sep \o JoinStrings(Tail(a), sep)

\* ToString of the values the scripts interpolate or sort
JsToString(v) ==
  CASE v.t = "string" -> v.s
    [] v.t = "number" -> NatToString(v.n)
    [] v.t = "null" -> <<"n", "u", "l", "l">>
    [] v.t = "undefined" -> <<"u", "n", "d", "e", "f", "i", "n", "e", "d">>
    [] v.t = "array" -> JoinStrings([i \in DOMAIN v.a |-> IF Nullish(v.a[i]) THEN <<>> ELSE v.a[i].s], <<",">>)
    [] OTHER -> <<"[", "o", "b", "j", "e", "c", "t", " ", "O", "b", "j", "e", "c", "t", "]">>

WhiteSpace == {" ", "\n", "\t"}

RECURSIVE TrimStart(_)
TrimStart(s) == IF s # <<>> /\ Head(s) \in WhiteSpace THEN TrimStart(Tail(s)) ELSE s

RECURSIVE TrimEnd(_)
TrimEnd(s) ==
  IF s # <<>> /\ s[Len(s)] \in WhiteSpace THEN TrimEnd(SubSeq(s, 1, Len(s) - 1)) ELSE s

\* String.prototype.trim
Trim(s) == TrimEnd(TrimStart(s))

RECURSIVE PadStart(_, _, _)
\* String.prototype.padStart with a one-character filler
PadStart(s, width, c) == IF Len(s) >= width THEN s ELSE PadStart(<<c>> \o s, width, c)

Min(a, b) == IF a < b THEN a ELSE b

\* String.prototype.slice(from, to) for 0 <= from <= to
Slice(s, from, to) == SubSeq(s, Min(from, Len(s)) + 1, Min(to, Len(s)))

(***************************************************************************)
(* String literals of the two scripts                                      *)
(***************************************************************************)
\* app.js:43
UnavailableMsg == <<"R", "e", "p", "o", "r", "t", " ", "u", "n", "a", "v", "a", "i", "l", "a", "b", "l", "e", " ", "r", "i", "g", "h", "t", " ", "n", "o", "w", ".">>
\* app.js:16
DayPrefix == <<"D", "A", "Y", " ">>
\* app.js:16
DaySep == <<" ", "EMDASH", " ">>
\* app.js:21
TwoNewlines == <<"\n", "\n">>
\* app.js:22
WinnerPrefix == <<"W", "i", "n", "n", "e", "r", ":", " ">>
\* app.js:27
ComposePrefix == <<"C", "o", "m", "p", "o", "s", "e", ":", " ">>
\* app.js:28
AxisPrefix == <<"E", "m", "o", "t", "i", "o", "n", "a", "l", " ", "a", "x", "i", "s", ":", " ">>
\* app.js:29
ConstraintsPrefix == <<"C", "o", "n", "s", "t", "r", "a", "i", "n", "t", "(", "s", ")", ":", " ">>
\* app.js:29
ConstraintsSep == <<";", " ">>
\* app.js:30
TimeboxPrefix == <<"T", "i", "m", "e", "b", "o", "x", ":", " ">>
\* app.js:30
TimeboxSuffix == <<" ", "h", "o", "u", "r", "s">>
\* app.js:31
DeliverablePrefix == <<"D", "e", "l", "i", "v", "e", "r", "a", "b", "l", "e", ":", " ">>
\* app.js:33
Newline == <<"\n">>
\* app.js:35
DoneStatus == <<"D", "O", "N", "E">>
\* app.js:36
DoneLinkOpen == <<"D", "O", "N", "E", " ", "EMDASH", " ", "<", "a", " ", "h", "r", "e", "f", "=", "\"">>
\* app.js:36
DoneLinkClose == <<"\"", ">", "O", "p", "e", "n", "<", "/", "a", ">">>
\* app.js:38
PendingText == <<"P", "E", "N", "D", "I", "N", "G">>
\* app.js:41
EnginePrefix == <<"E", "N", "G", "I", "N", "E", " ", "v">>
\* archive.js:15
ArchiveUnavailableMsg == <<"A", "r", "c", "h", "i", "v", "e", " ", "u", "n", "a", "v", "a", "i", "l", "a", "b", "l", "e", ".">>
\* archive.js:11
ReportsDir == <<"r", "e", "p", "o", "r", "t", "s", "/">>
\* archive.js:11
Slash == <<"/">>
\* archive.js:11
JsonExt == <<".", "j", "s", "o", "n">>
\* archive.js:12
EntryOpen == <<"<", "d", "i", "v", ">", "<", "a", " ", "h", "r", "e", "f", "=", "\"">>
\* archive.js:12
EntryMid == <<"\"", ">">>
\* archive.js:12
EntryClose == <<"<", "/", "a", ">", "<", "/", "d", "i", "v", ">">>
EmptyString == <<>>

(***************************************************************************)
(* Display surface                                                         *)
(***************************************************************************)
ReportRegions == {"status", "day", "diagnosis", "agon", "mandate", "artifact", "build"}
Regions == ReportRegions \cup {"list"}

\* one assignment  region.prop = s
W(region, prop, s) == [region |-> region, prop |-> prop, s |-> s]

RECURSIVE ApplyWrites(_, _)
\* the display after the assignments ws, in order
ApplyWrites(d, ws) ==
  IF ws = <<>> THEN d
  ELSE ApplyWrites([d EXCEPT ![Head(ws).region] = [prop |-> Head(ws).prop, s |-> Head(ws).s]],
                   Tail(ws))

(***************************************************************************)
(* ReportView: the display strings of the try block (src/app.js 15-41)     *)
(***************************************************************************)
PadWidth == 3
DefaultTimebox == 8

\* `DAY ${String(j.day_number ?? "").padStart(3,"0")} -- ${j.date ?? ""}`
DayLabel(doc) ==
  DayPrefix
    \o PadStart(JsToString(Coalesce(Get(doc, "day_number"), Str(EmptyString))), PadWidth, "0")
    \o DaySep
    \o JsToString(Coalesce(Get(doc, "date"), Str(EmptyString)))

\* j.diagnosis ?? ""
DiagnosisText(doc) == JsToString(Coalesce(Get(doc, "diagnosis"), Str(EmptyString)))

\* agonText.trim()
AgonText(doc) ==
  LET agon == Get(doc, "agon")
      summary == OptGet(agon, "summary")
      winner == OptGet(agon, "winner")
  IN Trim((IF Truthy(summary) THEN JsToString(summary) \o TwoNewlines ELSE EmptyString)
          \o (IF Truthy(winner) THEN WinnerPrefix \o JsToString(winner) ELSE EmptyString))

\* the object a mandate-less document falls back to:  j.mandate || {}
EmptyMandate ==
  Obj([medium |-> Undef, emotional_axis |-> Undef, constraints |-> Undef,
       timebox_hours |-> Undef, deliverable |-> Undef])

MandateOf(doc) == IF Truthy(Get(doc, "mandate")) THEN Get(doc, "mandate") ELSE EmptyMandate

\* variant: m.constraints.join(...) without the  || []  fallback
ConstraintsNoFallback(m) == Get(m, "constraints")

\* (m.constraints || [])
ConstraintsOrEmpty(m) ==
  IF Truthy(Get(m, "constraints")) THEN Get(m, "constraints") ELSE Arr(<<>>)

\* .join is not a function on anything but an array: a TypeError
ConstraintsThrows(m) == ConstraintsOrEmpty(m).t # "array"

ConstraintsJoined(m) ==
  LET a == ConstraintsOrEmpty(m).a
  IN JoinStrings([i \in DOMAIN a |-> IF Nullish(a[i]) THEN EmptyString ELSE JsToString(a[i])],
                 ConstraintsSep)

\* the five template lines, each trimmed, before .filter(Boolean)
MandateLines(m) ==
  << Trim(ComposePrefix \o JsToString(Coalesce(Get(m, "medium"), Str(EmptyString)))),
     Trim(AxisPrefix \o JsToString(Coalesce(Get(m, "emotional_axis"), Str(EmptyString)))),
     Trim(ConstraintsPrefix \o ConstraintsJoined(m)),
     Trim(TimeboxPrefix \o JsToString(Coalesce(Get(m, "timebox_hours"), Num(DefaultTimebox)))
            \o TimeboxSuffix),
     Trim(DeliverablePrefix \o JsToString(Coalesce(Get(m, "deliverable"), Str(EmptyString)))) >>

\* .filter(Boolean) on an array of strings: the empty string is the only falsy one
FilterBoolean(lines) == SelectSeq(lines, LAMBDA l : l # EmptyString)

\* lines.join("\n")
MandateText(doc) == JoinStrings(FilterBoolean(MandateLines(MandateOf(doc))), Newline)

\* variant: the url is not tested
ArtifactDoneStatusOnly(doc) == OptGet(Get(doc, "artifact"), "status") = Str(DoneStatus)

\* j.artifact?.status === "DONE" && j.artifact?.url
ArtifactDone(doc) ==
  /\ OptGet(Get(doc, "artifact"), "status") = Str(DoneStatus)
  /\ Truthy(OptGet(Get(doc, "artifact"), "url"))

ArtifactWrite(doc) ==
  IF ArtifactDone(doc)
  THEN W("artifact", "innerHTML",
         DoneLinkOpen \o JsToString(OptGet(Get(doc, "artifact"), "url")) \o DoneLinkClose)
  ELSE W("artifact", "textContent", PendingText)

\* if (j.engine?.version) build.textContent = `ENGINE v${j.engine.version}`
BuildWrites(doc) ==
  IF Truthy(OptGet(Get(doc, "engine"), "version"))
  THEN <<W("build", "textContent", EnginePrefix \o JsToString(OptGet(Get(doc, "engine"), "version")))>>
  ELSE <<>>

\* the assignments the try block performs on the parsed document, up to its end or
\* up to the statement that throws
ReportTryWrites(doc) ==
  <<W("status", "textContent", EmptyString)>>
    \o (IF Nullish(doc) THEN <<>>
        ELSE << W("day", "textContent", DayLabel(doc)),
                W("diagnosis", "textContent", DiagnosisText(doc)),
                W("agon", "textContent", AgonText(doc)) >>
             \o (IF ConstraintsThrows(MandateOf(doc)) THEN <<>>
                 ELSE << W("mandate", "textContent", MandateText(doc)), ArtifactWrite(doc) >>
                        \o BuildWrites(doc)))

\* whether a statement of the try block throws on the parsed document
ReportTryThrows(doc) == Nullish(doc) \/ ConstraintsThrows(MandateOf(doc))

\* variant: the artifact region is not cleared
ReportCatchKeepsArtifact ==
  << W("status", "textContent", UnavailableMsg),
     W("diagnosis", "textContent", EmptyString),
     W("agon", "textContent", EmptyString),
     W("mandate", "textContent", EmptyString) >>

\* variant: every region is cleared, the build label too
ReportCatchClearsBuild ==
  << W("status", "textContent", UnavailableMsg),
     W("diagnosis", "textContent", EmptyString),
     W("agon", "textContent", EmptyString),
     W("mandate", "textContent", EmptyString),
     W("artifact", "textContent", EmptyString),
     W("build", "textContent", EmptyString) >>

\* variant: the regions are cleared first and the message is shown last
ReportCatchStatusLast ==
  << W("diagnosis", "textContent", EmptyString),
     W("agon", "textContent", EmptyString),
     W("mandate", "textContent", EmptyString),
     W("artifact", "textContent", EmptyString),
     W("status", "textContent", UnavailableMsg) >>

\* the assignments of the catch block
ReportCatchWrites ==
  << W("status", "textContent", UnavailableMsg),
     W("diagnosis", "textContent", EmptyString),
     W("agon", "textContent", EmptyString),
     W("mandate", "textContent", EmptyString),
     W("artifact", "textContent", EmptyString) >>

(***************************************************************************)
(* ArchiveView: sorting and entry markup (src/archive.js 9-13)             *)
(***************************************************************************)
\* UTF-16 code unit of the characters that occur in the modelled date values
CodeUnit(c) ==
  CASE c = "-" -> 45
    [] c = "0" -> 48 [] c = "1" -> 49 [] c = "2" -> 50 [] c = "3" -> 51 [] c = "4" -> 52
    [] c = "5" -> 53 [] c = "6" -> 54 [] c = "7" -> 55 [] c = "8" -> 56 [] c = "9" -> 57
    [] c = "l" -> 108 [] c = "n" -> 110 [] c = "u" -> 117

RECURSIVE StrLess(_, _)
\* a < b on strings: code-unit-wise, a proper prefix is smaller
StrLess(a, b) ==
  IF b = <<>> THEN FALSE
  ELSE IF a = <<>> THEN TRUE
  ELSE IF Head(a) = Head(b) THEN StrLess(Tail(a), Tail(b))
  ELSE CodeUnit(Head(a)) < CodeUnit(Head(b))

\* the default comparator of Array.prototype.sort: by ToString
SortBefore(x, y) == StrLess(JsToString(x), JsToString(y))

RECURSIVE InsertSorted(_, _)
\* x placed after every element that does not sort after it (the sort is stable)
InsertSorted(a, x) ==
  IF a = <<>> THEN <<x>>
  ELSE IF SortBefore(x, Head(a)) THEN <<x>> \o a
  ELSE <<Head(a)>> \o InsertSorted(Tail(a), x)

RECURSIVE SortDefault(_)
\* Array.prototype.sort() without a comparator
SortDefault(a) ==
  IF a = <<>> THEN <<>>
  ELSE InsertSorted(SortDefault(SubSeq(a, 1, Len(a) - 1)), a[Len(a)])

\* Array.prototype.reverse
Reverse(a) == [i \in 1..Len(a) |-> a[Len(a) + 1 - i]]

\* variant: sorted but not reversed
OldestFirst(a) == SortDefault(a)

\* (j.dates || []).slice().sort().reverse()
NewestFirst(a) == Reverse(SortDefault(a))

\* (j.dates || [])
DatesOrEmpty(doc) == IF Truthy(Get(doc, "dates")) THEN Get(doc, "dates") ELSE Arr(<<>>)

\* j.dates on null, or .sort() / .slice() on something that is not an array: a TypeError
DatesThrows(doc) == Nullish(doc) \/ DatesOrEmpty(doc).t # "array"

\* d.slice is a function on strings only (among strings, numbers and null)
EntryThrows(d) == d.t # "string"

\* `reports/${d.slice(0,4)}/${d.slice(5,7)}/${d}.json`
Href(d) ==
  ReportsDir \o Slice(d.s, 0, 4) \o Slash \o Slice(d.s, 5, 7) \o Slash \o d.s \o JsonExt

\* `<div><a href="${href}">${d}</a></div>`
Entry(d) == EntryOpen \o Href(d) \o EntryMid \o d.s \o EntryClose

RECURSIVE Concat(_)
\* .join("")
Concat(parts) == IF parts = <<>> THEN <<>> ELSE Head(parts) \o Concat(Tail(parts))

\* dates.map(...) throws as soon as one callback throws
MapThrows(ds) == \E i \in 1..Len(ds) : EntryThrows(ds[i])

ListMarkup(ds) == Concat([i \in 1..Len(ds) |-> Entry(ds[i])])

\* the assignments of the try block on the parsed index
ArchiveTryWrites(doc) ==
  IF DatesThrows(doc) \/ MapThrows(NewestFirst(DatesOrEmpty(doc).a)) THEN <<>>
  ELSE <<W("list", "innerHTML", ListMarkup(NewestFirst(DatesOrEmpty(doc).a)))>>

ArchiveTryThrows(doc) == DatesThrows(doc) \/ MapThrows(NewestFirst(DatesOrEmpty(doc).a))

\* variant: the error is logged and nothing is shown
ArchiveCatchSilent == <<>>

\* the assignment of the catch block
ArchiveCatchWrites == <<W("list", "textContent", ArchiveUnavailableMsg)>>

(***************************************************************************)
(* Inputs: what the network and the host page can hand to the scripts      *)
(***************************************************************************)
\* sequences over S of length at most n
SeqsUpTo(S, n) == UNION {[1..k -> S] : k \in 0..n}

\* HTTP status codes of the response; r.ok is status in 200..299
HttpStatuses == {200, 404, 500}
ResponseOk(status) == status \in 200..299

\* text a region of the host page shows before the script runs
PriorTexts == {EmptyString, <<"-">>}

TextDate1 == <<"2", "0", "2", "6", "-", "0", "2", "-", "0", "8">>
TextDate2 == <<"2", "0", "2", "6", "-", "0", "1", "-", "0", "1">>
TextDate3 == <<"2", "0", "2", "5", "-", "1", "2", "-", "3", "1">>

HeaderFull ==
  [day_number : {Undef, Num(3)}, date : {Undef, Str(TextDate1)},
   diagnosis : {Undef, Str(<<"o", "k">>)}]
HeaderBase ==
  {[day_number |-> Undef, date |-> Undef, diagnosis |-> Undef],
   [day_number |-> Num(3), date |-> Str(TextDate1), diagnosis |-> Str(<<"o", "k">>)]}

AgonFull ==
  {Undef} \cup {Obj(f) : f \in [summary : {Undef, Str(<<"t", "i", "e">>)}, winner : {Undef, Str(<<"A">>)}]}
AgonBase == {Undef, Obj([summary |-> Str(<<"t", "i", "e">>), winner |-> Str(<<"A">>)])}

ConstraintTexts == {Str(<<"m", "o", "n", "o">>), Str(<<"o", "n", "e", " ", "t", "a", "k", "e">>)}
\* absent, a string where an array is expected, or an array of strings
ConstraintValues ==
  {Undef, Str(<<"m", "o", "n", "o">>)} \cup {Arr(a) : a \in SeqsUpTo(ConstraintTexts, MaxConstraints)}

MandateFull ==
  {Undef} \cup
  {Obj(f) : f \in [medium : {Undef, Str(EmptyString), Str(<<"f", "i", "l", "m", " ">>)},
                   emotional_axis : {Undef, Str(<<"a", "w", "e">>)},
                   constraints : ConstraintValues,
                   timebox_hours : {Undef, Num(4)},
                   deliverable : {Undef, Str(<<"p", "d", "f">>)}]}
MandateBase ==
  {Undef,
   Obj([medium |-> Str(<<"f", "i", "l", "m", " ">>), emotional_axis |-> Str(<<"a", "w", "e">>),
        constraints |-> Arr(<<Str(<<"m", "o", "n", "o">>), Str(<<"o", "n", "e", " ", "t", "a", "k", "e">>)>>),
        timebox_hours |-> Num(4), deliverable |-> Str(<<"p", "d", "f">>)])}

ArtifactFull ==
  {Undef} \cup
  {Obj(f) : f \in [status : {Undef, Str(PendingText), Str(DoneStatus)},
                   url : {Undef, Null, Str(EmptyString), Str(<<"x", ".", "h", "t", "m", "l">>)}]}
ArtifactBase == {Undef, Obj([status |-> Str(DoneStatus), url |-> Str(<<"x", ".", "h", "t", "m", "l">>)])}

EngineFull == {Undef} \cup {Obj([version |-> v]) : v \in {Undef, Str(EmptyString), Str(<<"1", ".", "2">>)}}
EngineBase == {Undef, Obj([version |-> Str(<<"1", ".", "2">>)])}

ReportDoc(h, a, m, ar, e) ==
  Obj([day_number |-> h.day_number, date |-> h.date, diagnosis |-> h.diagnosis,
       agon |-> a, mandate |-> m, artifact |-> ar, engine |-> e])

\* The parsed bodies of reports/latest.json: the JSON value null, and objects in which
\* one section ranges over all its modelled values while each other section is either
\* absent or fully present.
ReportDocs ==
  {Null} \cup
  {ReportDoc(x[1], x[2], x[3], x[4], x[5]) :
     x \in (HeaderFull \X AgonBase \X MandateBase \X ArtifactBase \X EngineBase)
       \cup (HeaderBase \X AgonFull \X MandateBase \X ArtifactBase \X EngineBase)
       \cup (HeaderBase \X AgonBase \X MandateFull \X ArtifactBase \X EngineBase)
       \cup (HeaderBase \X AgonBase \X MandateBase \X ArtifactFull \X EngineBase)
       \cup (HeaderBase \X AgonBase \X MandateBase \X ArtifactBase \X EngineFull)}

\* an ISO date, or a malformed entry (null, a number)
DateValues == {Str(TextDate1), Str(TextDate2), Str(TextDate3), Null, Num(2026)}

\* The parsed bodies of reports/index.json
ArchiveDocs ==
  {Null, Obj([dates |-> Undef]), Obj([dates |-> Str(TextDate1)])}
    \cup {Obj([dates |-> Arr(a)]) : a \in SeqsUpTo(DateValues, MaxDates)}

\* what the host page shows before the load: one text in the build region and one in
\* every other region
PriorDisplays ==
  {[reg \in Regions |-> [prop |-> "initial", s |-> IF reg = "build" THEN b ELSE p]] :
     b \in PriorTexts, p \in PriorTexts}

(***************************************************************************)
(* The two async functions as state machines.  A step runs from one await  *)
(* to the next (or to the end of the function); nothing interleaves.       *)
(***************************************************************************)
Init ==
  /\ view \in {"report", "archive"}
  /\ pc = "init"
  /\ requests = 0
  /\ r = 0
  /\ j = Undef
  /\ dates = <<>>
  /\ prior \in PriorDisplays
  /\ display = prior
  /\ writes = <<>>
  /\ outcome = "pending"
  /\ cause = "none"
  /\ logged = 0
  /\ promise = "pending"

\* variant: the load is started again after a failure
AfterCatchRetry == "init"

\* where control goes after the catch block: the function returns
AfterCatch == "done"

\* the try block is left by a throw after the assignments ws; the catch block runs
Caught(why, ws, catchWrites) ==
  /\ writes' = writes \o ws \o catchWrites
  /\ display' = ApplyWrites(display, ws \o catchWrites)
  /\ logged' = logged + 1
  /\ cause' = why
  /\ outcome' = "unavailable"
  /\ pc' = AfterCatch
  /\ promise' = IF AfterCatch = "done" THEN "fulfilled" ELSE promise

\* the try block runs to its end after the assignments ws
Completed(ws) ==
  /\ writes' = writes \o ws
  /\ display' = ApplyWrites(display, ws)
  /\ outcome' = "rendered"
  /\ pc' = "done"
  /\ promise' = "fulfilled"
  /\ UNCHANGED <<logged, cause>>

\* fetch(...) is called: the one request of the load
Fetch(v) ==
  /\ view = v
  /\ pc = "init"
  /\ requests' = requests + 1
  /\ pc' = "fetching"
  /\ UNCHANGED <<view, r, j, dates, display, prior, writes, outcome, cause, logged, promise>>

\* ---- src/app.js ----
ReportFetch == Fetch("report")

\* await fetch(...) rejects: network error
ReportFetchRejects ==
  /\ view = "report" /\ pc = "fetching"
  /\ Caught("network", <<>>, ReportCatchWrites)
  /\ UNCHANGED <<view, requests, r, j, dates, prior>>

\* await fetch(...) resolves; if(!r.ok) throw; otherwise r.json() is awaited
ReportFetchResolves ==
  /\ view = "report" /\ pc = "fetching"
  /\ \E status \in HttpStatuses :
       /\ r' = status
       /\ IF ResponseOk(status)
          THEN /\ pc' = "parsing"
               /\ UNCHANGED <<display, writes, outcome, cause, logged, promise>>
          ELSE Caught("http", <<>>, ReportCatchWrites)
  /\ UNCHANGED <<view, requests, j, dates, prior>>

\* await r.json() rejects: the body is not JSON
ReportJsonRejects ==
  /\ view = "report" /\ pc = "parsing"
  /\ Caught("parse", <<>>, ReportCatchWrites)
  /\ UNCHANGED <<view, requests, r, j, dates, prior>>

\* await r.json() resolves: lines 15-41 run, and the catch block if one of them throws
ReportJsonResolves ==
  /\ view = "report" /\ pc = "parsing"
  /\ \E doc \in ReportDocs :
       /\ j' = doc
       /\ IF ReportTryThrows(doc)
          THEN Caught("shape", ReportTryWrites(doc), ReportCatchWrites)
          ELSE Completed(ReportTryWrites(doc))
  /\ UNCHANGED <<view, requests, r, dates, prior>>

\* ---- src/archive.js ----
ArchiveFetch == Fetch("archive")

ArchiveFetchRejects ==
  /\ view = "archive" /\ pc = "fetching"
  /\ Caught("network", <<>>, ArchiveCatchWrites)
  /\ UNCHANGED <<view, requests, r, j, dates, prior>>

ArchiveFetchResolves ==
  /\ view = "archive" /\ pc = "fetching"
  /\ \E status \in HttpStatuses :
       /\ r' = status
       /\ IF ResponseOk(status)
          THEN /\ pc' = "parsing"
               /\ UNCHANGED <<display, writes, outcome, cause, logged, promise>>
          ELSE Caught("http", <<>>, ArchiveCatchWrites)
  /\ UNCHANGED <<view, requests, j, dates, prior>>

ArchiveJsonRejects ==
  /\ view = "archive" /\ pc = "parsing"
  /\ Caught("parse", <<>>, ArchiveCatchWrites)
  /\ UNCHANGED <<view, requests, r, j, dates, prior>>

\* await r.json() resolves: lines 9-13 run, and the catch block if one of them throws
ArchiveJsonResolves ==
  /\ view = "archive" /\ pc = "parsing"
  /\ \E doc \in ArchiveDocs :
       /\ j' = doc
       /\ dates' = IF DatesThrows(doc) THEN dates ELSE NewestFirst(DatesOrEmpty(doc).a)
       /\ IF ArchiveTryThrows(doc)
          THEN Caught("shape", ArchiveTryWrites(doc), ArchiveCatchWrites)
          ELSE Completed(ArchiveTryWrites(doc))
  /\ UNCHANGED <<view, requests, r, prior>>

Next ==
  \/ ReportFetch
  \/ ReportFetchRejects
  \/ ReportFetchResolves
  \/ ReportJsonRejects
  \/ ReportJsonResolves
  \/ ArchiveFetch
  \/ ArchiveFetchRejects
  \/ ArchiveFetchResolves
  \/ ArchiveJsonRejects
  \/ ArchiveJsonResolves

Spec == Init /\ [][Next]_vars

(***************************************************************************)
(* Properties                                                              *)
(***************************************************************************)
Text(s) == [prop |-> "textContent", s |-> s]
Html(s) == [prop |-> "innerHTML", s |-> s]

ReportDone == view = "report" /\ pc = "done"
ArchiveDone == view = "archive" /\ pc = "done"

\* C1: when the load of reports/latest.json fails by network error, non-success HTTP
\* status or JSON parse error, the load ends with the status region showing the fixed
\* unavailable message and the diagnosis, agon, mandate and artifact regions empty.
C1_FetchOrParseFailureClears ==
  (ReportDone /\ cause \in {"network", "http", "parse"}) =>
    /\ outcome = "unavailable"
    /\ display["status"] = Text(UnavailableMsg)
    /\ \A reg \in {"diagnosis", "agon", "mandate", "artifact"} : display[reg] = Text(EmptyString)

\* a parse failure on a page whose regions showed something before the load
C1_Witness ==
  /\ ReportDone /\ cause = "parse"
  /\ prior["artifact"].s # EmptyString
  /\ display["artifact"] = Text(EmptyString)
  /\ display["status"] = Text(UnavailableMsg)

\* C2: in every execution of ReportView that ends on the failure path, no display region
\* holds text derived from the fetched document at the end of the load: each region
\* shows what the page showed before the load, the empty string or the fixed message.
C2_NoPartialSuccessSurfaced ==
  (ReportDone /\ outcome = "unavailable") =>
    \A reg \in ReportRegions :
      \/ display[reg] = prior[reg]
      \/ display[reg] = Text(EmptyString)
      \/ display[reg] = Text(UnavailableMsg)

\* a mandate field that is absent or empty
FieldEmpty(v) == Nullish(v) \/ v = Str(EmptyString)

\* the mandate block as C3 describes it: a line is left out when its field is absent or
\* empty (the timebox falls back to its default and is never empty)
ClaimedMandateLines(m) ==
  (IF FieldEmpty(Get(m, "medium")) THEN <<>>
   ELSE <<Trim(ComposePrefix \o Get(m, "medium").s)>>)
  \o (IF FieldEmpty(Get(m, "emotional_axis")) THEN <<>>
      ELSE <<Trim(AxisPrefix \o Get(m, "emotional_axis").s)>>)
  \o (IF Nullish(Get(m, "constraints")) \/ Get(m, "constraints") = Arr(<<>>) THEN <<>>
      ELSE <<Trim(ConstraintsPrefix
                    \o JoinStrings([i \in DOMAIN Get(m, "constraints").a |->
                                      Get(m, "constraints").a[i].s], ConstraintsSep))>>)
  \o <<Trim(TimeboxPrefix
              \o (IF Nullish(Get(m, "timebox_hours")) THEN NatToString(DefaultTimebox)
                  ELSE NatToString(Get(m, "timebox_hours").n))
              \o TimeboxSuffix)>>
  \o (IF FieldEmpty(Get(m, "deliverable")) THEN <<>>
      ELSE <<Trim(DeliverablePrefix \o Get(m, "deliverable").s)>>)

\* C3: on a successful load each of the five mandate lines is omitted from the mandate
\* region when its field is absent or empty; the remaining lines appear trimmed,
\* newline-joined, in the fixed order.
C3_EmptyMandateLinesOmitted ==
  (ReportDone /\ outcome = "rendered") =>
    display["mandate"] =
      Text(JoinStrings(ClaimedMandateLines(IF Get(j, "mandate").t = "object"
                                           THEN Get(j, "mandate") ELSE EmptyMandate),
                       Newline))

\* every present field of the document has its documented type
DocumentedTypes(doc) ==
  /\ doc.t = "object"
  /\ Get(doc, "day_number").t \in {"undefined", "number"}
  /\ Get(doc, "date").t \in {"undefined", "string"}
  /\ Get(doc, "diagnosis").t \in {"undefined", "string"}
  /\ Get(doc, "agon").t \in {"undefined", "object"}
  /\ OptGet(Get(doc, "agon"), "summary").t \in {"undefined", "string"}
  /\ OptGet(Get(doc, "agon"), "winner").t \in {"undefined", "string"}
  /\ Get(doc, "mandate").t \in {"undefined", "object"}
  /\ OptGet(Get(doc, "mandate"), "medium").t \in {"undefined", "string"}
  /\ OptGet(Get(doc, "mandate"), "emotional_axis").t \in {"undefined", "string"}
  /\ OptGet(Get(doc, "mandate"), "constraints").t \in {"undefined", "array"}
  /\ OptGet(Get(doc, "mandate"), "timebox_hours").t \in {"undefined", "number"}
  /\ OptGet(Get(doc, "mandate"), "deliverable").t \in {"undefined", "string"}
  /\ Get(doc, "artifact").t \in {"undefined", "object"}
  /\ OptGet(Get(doc, "artifact"), "status").t \in {"undefined", "string"}
  /\ OptGet(Get(doc, "artifact"), "url").t \in {"undefined", "string"}
  /\ Get(doc, "engine").t \in {"undefined", "object"}
  /\ OptGet(Get(doc, "engine"), "version").t \in {"undefined", "string"}

\* C4: for every document that is a JSON object whose present fields have their
\* documented types, whichever optional fields are absent, ReportView completes on the
\* success path: nothing is thrown, the catch block does not run, the status region
\* ends empty.
C4_AbsentFieldsNeverFail ==
  (ReportDone /\ j # Undef /\ DocumentedTypes(j)) =>
    /\ outcome = "rendered"
    /\ cause = "none"
    /\ logged = 0
    /\ display["status"] = Text(EmptyString)

\* the document {} (every optional field absent) was rendered
C4_Witness ==
  /\ ReportDone /\ outcome = "rendered"
  /\ j.t = "object"
  /\ \A k \in {"day_number", "date", "diagnosis", "agon", "mandate", "artifact", "engine"} :
       Get(j, k) = Undef
  /\ display["status"] = Text(EmptyString)
  /\ display["artifact"] = Text(PendingText)

\* the dates array the index carries (absent counts as empty)
InputDates == IF Get(j, "dates").t = "array" THEN Get(j, "dates").a ELSE <<>>

\* number of positions of seq holding v
Count(seq, v) == Cardinality({i \in DOMAIN seq : seq[i] = v})

SameMultiset(a, b) ==
  /\ Len(a) = Len(b)
  /\ \A i \in DOMAIN a : Count(a, a[i]) = Count(b, a[i])

\* C5: on a successful load of the archive the rendered entries are a permutation of
\* the input dates (same multiset, duplicates kept, one entry per date) in descending
\* lexicographic order; absent or empty dates give zero entries and no failure.
C5_ArchiveDescendingPermutation ==
  /\ (ArchiveDone /\ outcome = "rendered") =>
       /\ SameMultiset(dates, InputDates)
       /\ \A i, k \in DOMAIN dates : i < k => ~StrLess(dates[i].s, dates[k].s)
       /\ display["list"] = Html(Concat([i \in DOMAIN dates |-> Entry(dates[i])]))
  /\ (ArchiveDone /\ j.t = "object" /\ Get(j, "dates") \in {Undef, Arr(<<>>)}) =>
       /\ outcome = "rendered"
       /\ display["list"] = Html(EmptyString)

\* three dates, one of them twice, given oldest first, were rendered
C5_Witness ==
  /\ ArchiveDone /\ outcome = "rendered"
  /\ Len(InputDates) = 3
  /\ InputDates[1] = InputDates[2]
  /\ StrLess(InputDates[2].s, InputDates[3].s)
  /\ dates = <<InputDates[3], InputDates[1], InputDates[1]>>

ArtifactStatus == OptGet(Get(j, "artifact"), "status")
ArtifactUrl == OptGet(Get(j, "artifact"), "url")

\* what the artifact region shows, given whether a link is expected
ArtifactShows(linkExpected) ==
  IF linkExpected
  THEN display["artifact"] = Html(DoneLinkOpen \o JsToString(ArtifactUrl) \o DoneLinkClose)
  ELSE display["artifact"] = Text(PendingText)

\* C6 as stated: on a successful load the artifact region shows "DONE -- " and a link
\* labelled Open to artifact.url iff artifact.status is exactly "DONE" and artifact.url
\* is present (holds a string); otherwise it shows exactly "PENDING".
C6_LinkIffDoneAndUrlPresent ==
  (ReportDone /\ outcome = "rendered") =>
    ArtifactShows(ArtifactStatus = Str(DoneStatus) /\ ArtifactUrl.t = "string")

\* C6 amended: on a successful load the artifact region is set to the markup "DONE -- "
\* followed by a link labelled Open whose href is artifact.url, iff artifact.status is
\* exactly "DONE" and artifact.url is truthy (a string that is not empty); otherwise
\* (artifact absent, any other status, DONE with an absent, null or empty url) it shows
\* exactly "PENDING".
C6_LinkIffDoneAndUrlNonEmpty ==
  (ReportDone /\ outcome = "rendered") =>
    ArtifactShows(/\ ArtifactStatus = Str(DoneStatus)
                  /\ ArtifactUrl.t = "string"
                  /\ ArtifactUrl.s # EmptyString)

\* a DONE artifact with a url was rendered as a link
C6_Witness ==
  /\ ReportDone /\ outcome = "rendered"
  /\ ArtifactStatus = Str(DoneStatus)
  /\ ArtifactUrl.t = "string"
  /\ ArtifactUrl.s # EmptyString
  /\ display["artifact"].prop = "innerHTML"

BuildAssigned == \E i \in DOMAIN writes : writes[i].region = "build"

\* C7: the build region is changed only by a successful load whose document has
\* engine.version present, and then to "ENGINE v" + version; on a successful load
\* without engine.version and on every failure path it keeps its value from before
\* the load.
C7_BuildLabelFrame ==
  /\ BuildAssigned =>
       /\ view = "report" /\ outcome = "rendered"
       /\ OptGet(Get(j, "engine"), "version").t = "string"
       /\ display["build"] = Text(EnginePrefix \o OptGet(Get(j, "engine"), "version").s)
  /\ ~BuildAssigned => display["build"] = prior["build"]
  /\ (pc = "done" /\ outcome = "unavailable") => ~BuildAssigned
  /\ (ReportDone /\ outcome = "rendered" /\ OptGet(Get(j, "engine"), "version") = Undef) =>
       ~BuildAssigned

\* a load failed after the parse of a document that carries engine.version, and the
\* build region still shows the page's own text
C7_Witness ==
  /\ ReportDone /\ cause = "shape"
  /\ OptGet(Get(j, "engine"), "version").t = "string"
  /\ prior["build"].s # EmptyString
  /\ display["build"] = prior["build"]

\* the order in which app.js and archive.js name the regions
FixedOrder == <<"status", "day", "diagnosis", "agon", "mandate", "artifact", "build", "list">>
Rank(reg) == CHOOSE i \in DOMAIN FixedOrder : FixedOrder[i] = reg

\* the assignments from position a to position b name distinct regions, in the fixed order
InFixedOrder(a, b) ==
  \A i, k \in a..b : i < k => Rank(writes[i].region) < Rank(writes[k].region)

TimesAssigned(reg) == Cardinality({i \in DOMAIN writes : writes[i].region = reg})

\* C8 as stated: in every execution of a view (success, fetch/parse failure, or failure
\* raised after the parse) no display region is assigned more than once during the
\* load, and the regions that are written are written in the same relative order.
C8_EachRegionAssignedOnce ==
  /\ \A reg \in Regions : TimesAssigned(reg) <= 1
  /\ InFixedOrder(1, Len(writes))

\* C8 amended: in every execution of ArchiveView, and in every execution of ReportView
\* that succeeds or fails at the fetch or the parse, no region is assigned more than
\* once and the assignments follow one fixed order.  When ReportView fails after the
\* parse, the try block's assignments are followed by the catch block's, each run in
\* the fixed order: the status region is assigned twice, and no region more than twice.
C8_OnceExceptAfterParseFailure ==
  /\ (view = "archive" \/ cause # "shape") =>
       /\ \A reg \in Regions : TimesAssigned(reg) <= 1
       /\ InFixedOrder(1, Len(writes))
  /\ (view = "report" /\ cause = "shape") =>
       /\ TimesAssigned("status") = 2
       /\ \A reg \in Regions : TimesAssigned(reg) <= 2
       /\ \E n \in 1..Len(writes) : InFixedOrder(1, n) /\ InFixedOrder(n + 1, Len(writes))
  /\ ArchiveDone => TimesAssigned("list") = 1

\* a failure after the parse: four assignments of the try block, five of the catch block
C8_Witness ==
  /\ ReportDone /\ cause = "shape"
  /\ Len(writes) = 9
  /\ TimesAssigned("diagnosis") = 2

C9_StateInv ==
  /\ requests <= 1
  /\ (pc = "init") = (requests = 0)
  /\ (pc = "done") = (outcome \in {"rendered", "unavailable"})
  /\ (pc # "done") = (outcome = "pending")
  /\ promise \in {"pending", "fulfilled"}
  /\ (pc = "done") = (promise = "fulfilled")
  /\ logged = (IF outcome = "unavailable" THEN 1 ELSE 0)

\* C9: in each load a view issues exactly one network request and never a second one;
\* once the request resolves or fails the view reaches exactly one of the outcomes
\* rendered and unavailable, after which it writes nothing more to the display, and no
\* error leaves the view (its promise is never rejected).
C9_SingleShot ==
  /\ []C9_StateInv
  /\ [][outcome # "pending" => UNCHANGED <<requests, display, writes, outcome, logged>>]_vars

\* a load that ended unavailable after its one request
C9_Witness ==
  /\ pc = "done" /\ outcome = "unavailable"
  /\ requests = 1 /\ logged = 1 /\ promise = "fulfilled"
  /\ cause = "http"

\* sub occurs in s at position k
OccursAt(s, sub, k) == k + Len(sub) - 1 <= Len(s) /\ SubSeq(s, k, k + Len(sub) - 1) = sub
Occurrences(s, sub) == Cardinality({k \in 1..Len(s) : OccursAt(s, sub, k)})

\* C10: at the end of every load of the archive the list region is either the complete
\* rendering of all dates, one link per date, or exactly the fixed message
\* "Archive unavailable."; never a partial list, never links mixed with the message.
C10_ArchiveAllOrNothing ==
  ArchiveDone =>
    \/ /\ outcome = "rendered"
       /\ display["list"].prop = "innerHTML"
       /\ Occurrences(display["list"].s, EntryOpen) = Len(InputDates)
       /\ Occurrences(display["list"].s, EntryClose) = Len(InputDates)
       /\ \A i \in DOMAIN InputDates :
            Occurrences(display["list"].s, Entry(InputDates[i])) = Count(InputDates, InputDates[i])
    \/ /\ outcome = "unavailable"
       /\ display["list"] = Text(ArchiveUnavailableMsg)

\* the index held a good date and a number; the good date sorts first, so its entry was
\* built before the number made the mapping throw, and only the message is shown
C10_Witness ==
  /\ ArchiveDone /\ cause = "shape"
  /\ Len(dates) = 2
  /\ dates[1] = Str(TextDate1)
  /\ dates[2].t = "number"
  /\ display["list"] = Text(ArchiveUnavailableMsg)

====
